---- MODULE Spec2Model ----
(***************************************************************************)
(* Model of src/server.py: the news_search tool of the search-api server.  *)
(*                                                                         *)
(* Each invocation of news_search normalizes its five raw arguments with   *)
(* parse_val, builds the query-parameter dict, opens an aiohttp session,   *)
(* issues one GET and maps the outcome to the returned value.  Invocations *)
(* are coroutines: they interleave at the two awaits (session.get and      *)
(* r.json()) and may be cancelled there by the host runtime.               *)
(*                                                                         *)
(* Python values are tagged records.  Argument strings are sequences of    *)
(* one-character strings so that str.replace, int() and float() are        *)
(* computed character by character.                                        *)
(***************************************************************************)
EXTENDS Integers, Sequences, FiniteSets, TLC

\* ------------------------------------------------------------------ bounds

\* Longest location string drawn as an input.
MaxLen == 3

\* Number of invocations the host runtime may have in flight together.
NumCalls == 2

\* ------------------------------------------------------- Python values

PyNone == [t |-> "none", s |-> <<>>, n |-> 0]
PyStr(s) == [t |-> "str", s |-> s, n |-> 0]
PyInt(n) == [t |-> "int", s |-> <<>>, n |-> n]
\* A finite float, held in tenths: PyFloat(25) is 2.5.
PyFloat(m) == [t |-> "float", s |-> <<>>, n |-> m]
FloatInf == [t |-> "inf", s |-> <<>>, n |-> 0]
FloatNan == [t |-> "nan", s |-> <<>>, n |-> 0]
\* The int 10**400: an int beyond the range of a float.
HugeInt == [t |-> "hugeint", s |-> <<>>, n |-> 0]
\* The empty list [], standing for the arguments int() and float() reject by type.
EmptyList == [t |-> "list", s |-> <<>>, n |-> 0]

\* The outcome of a conversion: a value, or the exception class it raises.
Value(v) == [exc |-> "", val |-> v]
Raise(cls) == [exc |-> cls, val |-> PyNone]

DigitChars == <<"0", "1", "2", "3", "4", "5", "6", "7", "8", "9">>
DigitSet == {DigitChars[k] : k \in 1..10}
DigitVal(c) == (CHOOSE k \in 1..10 : DigitChars[k] = c) - 1

RECURSIVE NatToStr(_)
NatToStr(n) ==
    IF n < 10 THEN <<DigitChars[n + 1]>>
    ELSE NatToStr(n \div 10) \o <<DigitChars[(n % 10) + 1]>>

IntToStr(n) == IF n < 0 THEN <<"-">> \o NatToStr(-n) ELSE NatToStr(n)

\* repr of a finite float held in tenths: 25 is "2.5", -5 is "-0.5".
FloatToStr(m) ==
    LET a == IF m < 0 THEN -m ELSE m
    IN (IF m < 0 THEN <<"-">> ELSE <<>>)
       \o NatToStr(a \div 10) \o <<".">> \o <<DigitChars[(a % 10) + 1]>>

\* str(10**400): a one followed by 400 zeros.
HugeDigits == [k \in 1..401 |-> IF k = 1 THEN "1" ELSE "0"]

\* Mutant: the value is passed on without str().
StrOfUnconverted(v) == Value(v)

\* str(value), line 26.  str() of these values never raises.
StrOf(v) ==
    CASE v.t = "str" -> Value(v)
      [] v.t = "int" -> Value(PyStr(IntToStr(v.n)))
      [] v.t = "float" -> Value(PyStr(FloatToStr(v.n)))
      [] v.t = "inf" -> Value(PyStr(<<"i", "n", "f">>))
      [] v.t = "nan" -> Value(PyStr(<<"n", "a", "n">>))
      [] v.t = "hugeint" -> Value(PyStr(HugeDigits))
      [] v.t = "list" -> Value(PyStr(<<"[", "]">>))
      [] v.t = "none" -> Value(PyStr(<<"N", "o", "n", "e">>))

RECURSIVE LStrip(_)
LStrip(s) == IF s # <<>> /\ Head(s) = " " THEN LStrip(Tail(s)) ELSE s

RECURSIVE RStrip(_)
RStrip(s) ==
    IF s # <<>> /\ s[Len(s)] = " " THEN RStrip(SubSeq(s, 1, Len(s) - 1)) ELSE s

Strip(s) == RStrip(LStrip(s))

\* The digits of a literal once its sign is taken off.
Unsigned(s) == IF s # <<>> /\ Head(s) \in {"+", "-"} THEN Tail(s) ELSE s

\* A decimal literal as int() and float() both read it: digits, with single
\* underscores between digits.
IsDecimal(d) ==
    /\ d # <<>>
    /\ \A k \in 1..Len(d) : d[k] \in DigitSet \cup {"_"}
    /\ d[1] # "_"
    /\ d[Len(d)] # "_"
    /\ \A k \in 1..(Len(d) - 1) : ~(d[k] = "_" /\ d[k + 1] = "_")

RECURSIVE DecimalValue(_)
DecimalValue(d) ==
    IF d = <<>> THEN 0
    ELSE LET c == d[Len(d)]
             rest == SubSeq(d, 1, Len(d) - 1)
         IN IF c = "_" THEN DecimalValue(rest)
            ELSE 10 * DecimalValue(rest) + DigitVal(c)

SignedValue(s) ==
    IF s # <<>> /\ Head(s) = "-" THEN -DecimalValue(Unsigned(s))
    ELSE DecimalValue(Unsigned(s))

\* Truncation toward zero of a float held in tenths.
Trunc(m) == IF m < 0 THEN -((-m) \div 10) ELSE m \div 10

\* int(value), line 28.
IntOf(v) ==
    CASE v.t = "str" ->
            IF IsDecimal(Unsigned(Strip(v.s)))
            THEN Value(PyInt(SignedValue(Strip(v.s))))
            ELSE Raise("ValueError")
      [] v.t = "int" -> Value(v)
      [] v.t = "hugeint" -> Value(v)
      [] v.t = "float" -> Value(PyInt(Trunc(v.n)))
      [] v.t = "inf" -> Raise("OverflowError")
      [] v.t = "nan" -> Raise("ValueError")
      [] v.t = "list" -> Raise("TypeError")
      [] v.t = "none" -> Raise("TypeError")

\* float(value), line 30.  Over the characters the inputs are drawn from, a
\* string is a float literal exactly when it is a decimal int literal.
FloatOf(v) ==
    CASE v.t = "str" ->
            IF IsDecimal(Unsigned(Strip(v.s)))
            THEN Value(PyFloat(10 * SignedValue(Strip(v.s))))
            ELSE Raise("ValueError")
      [] v.t = "int" -> Value(PyFloat(10 * v.n))
      [] v.t = "hugeint" -> Raise("OverflowError")
      [] v.t = "float" -> Value(v)
      [] v.t = "inf" -> Value(v)
      [] v.t = "nan" -> Value(v)
      [] v.t = "list" -> Raise("TypeError")
      [] v.t = "none" -> Raise("TypeError")

Convert(value, target_type) ==
    CASE target_type = "str" -> StrOf(value)
      [] target_type = "int" -> IntOf(value)
      [] target_type = "float" -> FloatOf(value)
      [] OTHER -> Value(value)

\* The exception classes the except clause of parse_val names, line 33.
ParseValCaught == {"ValueError", "TypeError"}

\* parse_val, lines 20-34: None stays None; a conversion that raises one of
\* the caught classes yields None; any other exception leaves parse_val.
parse_val(value, target_type) ==
    IF value = PyNone THEN Value(PyNone)
    ELSE LET r == Convert(value, target_type)
         IN IF r.exc \in ParseValCaught THEN Value(PyNone) ELSE r

\* ------------------------------------------------- normalization, 47-56

\* str.replace(old, new) for one-character old and new.
Replace(s, old, new) == [k \in 1..Len(s) |-> IF s[k] = old THEN new ELSE s[k]]

\* Truthiness of a str-or-None value: None and "" are falsy.
Truthy(v) == v # PyNone /\ ~(v.t = "str" /\ v.s = <<>>)

\* Mutant: the second replace is missing.
ProcessLocationUnderscoreOnly(location_val) ==
    IF Truthy(location_val)
    THEN PyStr(Replace(location_val.s, "_", " "))
    ELSE location_val

\* Lines 55-56: underscores, then commas, become spaces.
ProcessLocation(location_val) ==
    IF Truthy(location_val)
    THEN PyStr(Replace(Replace(location_val.s, "_", " "), ",", " "))
    ELSE location_val

\* The five parse_val calls in the order of lines 48-52.
ParseAll(a) ==
    << parse_val(a.q, "str"),
       parse_val(a.size, "int"),
       parse_val(a.location, "str"),
       parse_val(a.latitude, "float"),
       parse_val(a.longitude, "float") >>

\* Lines 48-56.  The calls run in order outside the try block, so the first
\* exception that leaves parse_val leaves news_search.
Normalize(a) ==
    LET r == ParseAll(a)
        bad == {k \in 1..5 : r[k].exc # ""}
        first == CHOOSE k \in bad : \A j \in bad : k <= j
    IN IF bad # {}
       THEN [exc |-> r[first].exc,
             query |-> PyNone, size_val |-> PyNone, location_val |-> PyNone,
             latitude_val |-> PyNone, longitude_val |-> PyNone]
       ELSE [exc |-> "",
             query |-> r[1].val,
             size_val |-> r[2].val,
             location_val |-> ProcessLocation(r[3].val),
             latitude_val |-> r[4].val,
             longitude_val |-> r[5].val]

\* ------------------------------------------------ request parameters, 58-70

\* Mutant: the coordinates are tested for truth, so 0.0 is left out.
ParamKeysTruthy(v) ==
    {"q", "size"}
    \cup (IF Truthy(v.location_val) THEN {"location"} ELSE {})
    \cup (IF v.latitude_val # PyNone /\ v.latitude_val # PyFloat(0)
          THEN {"latitude"} ELSE {})
    \cup (IF v.longitude_val # PyNone /\ v.longitude_val # PyFloat(0)
          THEN {"longitude"} ELSE {})

ParamKeys(v) ==
    {"q", "size"}
    \cup (IF Truthy(v.location_val) THEN {"location"} ELSE {})
    \cup (IF v.latitude_val # PyNone THEN {"latitude"} ELSE {})
    \cup (IF v.longitude_val # PyNone THEN {"longitude"} ELSE {})

BuildParams(v) ==
    [k \in ParamKeys(v) |->
        CASE k = "q" -> v.query
          [] k = "size" -> v.size_val
          [] k = "location" -> v.location_val
          [] k = "latitude" -> v.latitude_val
          [] k = "longitude" -> v.longitude_val]

\* ---------------------------------------------------- JSON values, results

JObject(f) == [t |-> "dict", v |-> f]
JArray(items) == [t |-> "list", v |-> items]
JString(x) == [t |-> "str", v |-> x]
JNumber(x) == [t |-> "number", v |-> x]
JNull == [t |-> "null", v |-> 0]
\* No value yet: the invocation has not returned, or no body was decoded.
NoValue == [t |-> "unset", v |-> 0]

\* Mutant: every decoded value is wrapped.
WrapAlways(response) == [t |-> "dict", v |-> [k \in {"result"} |-> response]]

\* Lines 77-79: a decoded list is wrapped, anything else is returned as it is.
WrapResponse(response) ==
    IF response.t = "list" THEN JObject([k \in {"result"} |-> response])
    ELSE response

\* Exceptions: class and message.  str(e) is the message.
Exc(cls, msg) == [cls |-> cls, msg |-> msg]
NoExc == Exc("", "")
StrOfExc(e) == e.msg

\* Line 82.
FailedResult(e) ==
    JObject([k \in {"status", "reason"} |->
                IF k = "status" THEN JString("failed") ELSE JString(StrOfExc(e))])

\* Mutant: `except aiohttp.ClientError` in place of `except Exception`.
CaughtClientErrorOnly(e) ==
    e.cls \in {"ClientConnectorError", "ClientResponseError", "ContentTypeError"}

\* Classes derived from BaseException but not from Exception: the clause
\* `except Exception` of line 80 lets them pass.
BaseOnly == {"CancelledError"}
CaughtByExcept(e) == e.cls \notin BaseOnly

\* Mutant: the resource is used without `async with` and never released.
AsyncWithExitLeak(resource) == resource

\* Leaving an `async with` block, by return or by exception, releases what
\* the block acquired (lines 74-75).
AsyncWithExit(resource) == IF resource = "open" THEN "closed" ELSE resource

\* ------------------------------------------------ the HTTP client, line 75

\* The client builds the query string from params before anything is sent:
\* a value must be a str, an int or a finite float.  None raises TypeError,
\* nan and inf raise ValueError.
RequestBuildError(p) ==
    IF \E k \in DOMAIN p : p[k].t \in {"none", "list"}
    THEN Exc("TypeError", "Invalid variable type: value should be str, int or float")
    ELSE IF \E k \in DOMAIN p : p[k].t \in {"inf", "nan"}
         THEN Exc("ValueError", "float value is not supported")
         ELSE NoExc

\* raise_for_status=True raises ClientResponseError for a status of 400 or more.
RaisesForStatus(status) == status >= 400

StatusError(status) ==
    Exc("ClientResponseError",
        IF status = 401 THEN "401, message='Unauthorized'"
        ELSE "500, message='Internal Server Error'")

\* Final statuses the remote service may answer with.
Statuses == {200, 300, 401, 500}

\* Failures of the transfer while the request is in flight; timeout=5 raises
\* TimeoutError, whose str() is empty.
TransportErrors ==
    { Exc("ClientConnectorError", "Cannot connect to host"),
      Exc("TimeoutError", "") }

\* Failures of `await r.json()`, line 76.
DecodeErrors ==
    { Exc("ContentTypeError", "Attempt to decode JSON with unexpected mimetype"),
      Exc("JSONDecodeError", "Expecting value: line 1 column 1 (char 0)"),
      Exc("TimeoutError", "") }

Cancelled == Exc("CancelledError", "")

\* Bodies that decode as JSON.
Bodies ==
    { JObject([k \in {"title"} |-> JString("A")]),
      JObject([k \in {"status"} |-> JString("ok")]),
      JArray(<<>>),
      JArray(<< JObject([k \in {"title"} |-> JString("A")]),
                JObject([k \in {"title"} |-> JString("B")]) >>),
      JString("A"),
      JNumber(42),
      JNull }

\* ------------------------------------------------------------------ state

Calls == 1..NumCalls

\* Mutant: the locals are module-level globals shared by all invocations.
SharedFrame(i) == 1

\* The local variables of an invocation live in its own coroutine frame.
Frame(i) == i

VARIABLES
    pc,         \* where each invocation stands
    args,       \* the raw arguments (q, size, location, latitude, longitude)
    locals,     \* query, size_val, location_val, latitude_val, longitude_val
    params,     \* the params dict of lines 59-70
    session,    \* the ClientSession of line 74: "none", "open", "closed"
    conn,       \* the response and its connection, line 75
    wire,       \* the requests that left for the remote service
    remote,     \* what the outbound call met: exception, status, decoded body
    ret,        \* the returned value
    exc         \* the class of the exception that left news_search, or ""

vars == <<pc, args, locals, params, session, conn, wire, remote, ret, exc>>

NoArgs ==
    [q |-> PyNone, size |-> PyNone, location |-> PyNone,
     latitude |-> PyNone, longitude |-> PyNone]

NoRemote == [exc |-> NoExc, status |-> 0, body |-> NoValue]

Init ==
    /\ pc = [i \in Calls |-> "idle"]
    /\ args = [i \in Calls |-> NoArgs]
    /\ locals = [i \in Calls |-> Normalize(NoArgs)]
    /\ params = [i \in Calls |-> <<>>]
    /\ session = [i \in Calls |-> "none"]
    /\ conn = [i \in Calls |-> "none"]
    /\ wire = [i \in Calls |-> <<>>]
    /\ remote = [i \in Calls |-> NoRemote]
    /\ ret = [i \in Calls |-> NoValue]
    /\ exc = [i \in Calls |-> ""]

\* ---------------------------------------------------------------- actions

\* Lines 44-56: the host calls news_search(q, size, location, latitude,
\* longitude); the arguments are normalized.
Invoke(i, a) ==
    /\ pc[i] = "idle"
    /\ args' = [args EXCEPT ![i] = a]
    /\ LET v == Normalize(a)
       IN IF v.exc # ""
          THEN /\ pc' = [pc EXCEPT ![i] = "raised"]
               /\ exc' = [exc EXCEPT ![i] = v.exc]
               /\ UNCHANGED locals
          ELSE /\ pc' = [pc EXCEPT ![i] = "parsed"]
               /\ locals' = [locals EXCEPT ![Frame(i)] = v]
               /\ UNCHANGED exc
    /\ UNCHANGED <<params, session, conn, wire, remote, ret>>

\* Lines 58-70.
MakeParams(i) ==
    /\ pc[i] = "parsed"
    /\ params' = [params EXCEPT ![Frame(i)] = BuildParams(locals[Frame(i)])]
    /\ pc' = [pc EXCEPT ![i] = "built"]
    /\ UNCHANGED <<args, locals, session, conn, wire, remote, ret, exc>>

\* Line 74: the try block is entered and the session is opened.
OpenSession(i) ==
    /\ pc[i] = "built"
    /\ session' = [session EXCEPT ![i] = "open"]
    /\ pc' = [pc EXCEPT ![i] = "session"]
    /\ UNCHANGED <<args, locals, params, conn, wire, remote, ret, exc>>

\* An exception e raised inside the two `async with` blocks: both blocks are
\* left, then `except Exception` (lines 80-82) turns e into the failed result,
\* unless e is not an Exception, in which case it leaves news_search.
Unwind(i, e, status) ==
    /\ conn' = [conn EXCEPT ![i] = AsyncWithExit(conn[i])]
    /\ session' = [session EXCEPT ![i] = AsyncWithExit(session[i])]
    /\ remote' = [remote EXCEPT ![i].exc = e, ![i].status = status]
    /\ IF CaughtByExcept(e)
       THEN /\ ret' = [ret EXCEPT ![i] = FailedResult(e)]
            /\ pc' = [pc EXCEPT ![i] = "returned"]
            /\ UNCHANGED exc
       ELSE /\ exc' = [exc EXCEPT ![i] = e.cls]
            /\ pc' = [pc EXCEPT ![i] = "cancelled"]
            /\ UNCHANGED ret

\* Line 75: session.get builds the request from params; when that succeeds
\* the request leaves and the invocation waits for the response.
Get(i) ==
    /\ pc[i] = "session"
    /\ LET e == RequestBuildError(params[Frame(i)])
       IN IF e # NoExc
          THEN /\ Unwind(i, e, remote[i].status)
               /\ UNCHANGED wire
          ELSE /\ conn' = [conn EXCEPT ![i] = "open"]
               /\ wire' = [wire EXCEPT ![i] = Append(@, params[Frame(i)])]
               /\ pc' = [pc EXCEPT ![i] = "inflight"]
               /\ UNCHANGED <<session, remote, ret, exc>>
    /\ UNCHANGED <<args, locals, params>>

\* Line 75: the transfer fails or times out.
RequestFails(i, e) ==
    /\ pc[i] = "inflight"
    /\ Unwind(i, e, remote[i].status)
    /\ UNCHANGED <<args, locals, params, wire>>

\* Line 75: the response head arrives with a final status.
Respond(i, status) ==
    /\ pc[i] = "inflight"
    /\ IF RaisesForStatus(status)
       THEN Unwind(i, StatusError(status), status)
       ELSE /\ remote' = [remote EXCEPT ![i].status = status]
            /\ pc' = [pc EXCEPT ![i] = "reading"]
            /\ UNCHANGED <<session, conn, ret, exc>>
    /\ UNCHANGED <<args, locals, params, wire>>

\* Lines 76-79: the body decodes as JSON; the value is returned, wrapped if
\* it is a list, and both `async with` blocks are left.
ReadJson(i, response) ==
    /\ pc[i] = "reading"
    /\ remote' = [remote EXCEPT ![i].body = response]
    /\ ret' = [ret EXCEPT ![i] = WrapResponse(response)]
    /\ conn' = [conn EXCEPT ![i] = AsyncWithExit(conn[i])]
    /\ session' = [session EXCEPT ![i] = AsyncWithExit(session[i])]
    /\ pc' = [pc EXCEPT ![i] = "returned"]
    /\ UNCHANGED <<args, locals, params, wire, exc>>

\* Line 76: r.json() raises.
ReadFails(i, e) ==
    /\ pc[i] = "reading"
    /\ Unwind(i, e, remote[i].status)
    /\ UNCHANGED <<args, locals, params, wire>>

\* The host cancels the task while it waits at one of the awaits.
Cancel(i) ==
    /\ pc[i] \in {"inflight", "reading"}
    /\ Unwind(i, Cancelled, remote[i].status)
    /\ UNCHANGED <<args, locals, params, wire>>

\* ------------------------------------------------------------------ inputs

\* Characters location strings are drawn from.
LocChars == {"a", "_", ","}

RECURSIVE StringsUpTo(_)
StringsUpTo(n) ==
    IF n = 0 THEN {<<>>}
    ELSE LET shorter == StringsUpTo(n - 1)
         IN shorter \cup {Append(s, c) : s \in shorter, c \in LocChars}

QInputs == {PyNone, PyStr(<<>>), PyStr(<<"a">>), PyInt(7)}

SizeInputs ==
    {PyInt(10), PyNone, PyStr(<<"a", "b", "c">>), PyStr(<<" ", "1", "_", "0">>),
     PyFloat(25), FloatInf}

LocationInputs == {PyNone, PyInt(0)} \cup {PyStr(s) : s \in StringsUpTo(MaxLen)}

LatitudeInputs ==
    {PyNone, PyInt(0), PyFloat(345), PyStr(<<"a">>), FloatNan, HugeInt, EmptyList}

LongitudeInputs == {PyNone, PyInt(0), PyFloat(-1182)}

\* Every combination of raw arguments, for one invocation at a time.
AllArgs ==
    [q : QInputs, size : SizeInputs, location : LocationInputs,
     latitude : LatitudeInputs, longitude : LongitudeInputs]

\* The arguments concurrent invocations are issued with.
SomeArgs ==
    { [NoArgs EXCEPT !.q = PyStr(<<"a">>), !.size = PyInt(10)],
      [q |-> PyStr(<<"b">>), size |-> PyInt(5), location |-> PyStr(<<"a", "_", ",">>),
       latitude |-> PyInt(0), longitude |-> PyFloat(-1182)],
      [NoArgs EXCEPT !.q = PyStr(<<"a">>), !.size = PyStr(<<"a", "b", "c">>)],
      [NoArgs EXCEPT !.q = PyStr(<<"a">>), !.size = FloatInf] }

\* What an invocation does once it has been called.
Step(i) ==
    \/ MakeParams(i)
    \/ OpenSession(i)
    \/ Get(i)
    \/ \E e \in TransportErrors : RequestFails(i, e)
    \/ \E status \in Statuses : Respond(i, status)
    \/ \E response \in Bodies : ReadJson(i, response)
    \/ \E e \in DecodeErrors : ReadFails(i, e)
    \/ Cancel(i)

\* Any number of invocations, interleaved at their awaits.
Next ==
    \/ \E i \in Calls : pc[i] = "idle" /\ \E a \in SomeArgs : Invoke(i, a)
    \/ \E i \in Calls : Step(i)

Spec == Init /\ [][Next]_vars

\* One invocation, over every combination of raw arguments.
NextArgs ==
    \/ pc[1] = "idle" /\ \E a \in AllArgs : Invoke(1, a)
    \/ Step(1)

SpecArgs == Init /\ [][NextArgs]_vars

\* ------------------------------------------------------------------ claims

Ended(i) == pc[i] \in {"returned", "raised", "cancelled"}

\* The params dict exists: lines 58-70 have run.
HasParams(i) == pc[i] \in {"built", "session", "inflight", "reading", "returned", "cancelled"}

\* The outbound call of invocation i failed: an exception other than the
\* host's cancellation was raised by session.get or r.json().
CallFailed(i) == remote[i].exc # NoExc /\ remote[i].exc # Cancelled

IsFailedResult(val, e) ==
    val = [t |-> "dict",
           v |-> [status |-> JString("failed"), reason |-> JString(e.msg)]]

\* C1, as amended: an invocation whose outbound call fails (request
\* construction, transfer, timeout, a status of 400 or more, a body that
\* does not decode) returns {"status": "failed", "reason": str(e)} and no
\* exception leaves news_search.
C1_FailureReturnsFailedResult ==
    \A i \in Calls :
        CallFailed(i) =>
            /\ pc[i] = "returned"
            /\ IsFailedResult(ret[i], remote[i].exc)
            /\ exc[i] = ""

\* C1 witness: the remote answered 401 and the failed result was returned.
C1_Witness ==
    \E i \in Calls :
        /\ pc[i] = "returned"
        /\ remote[i].status = 401
        /\ ret[i].t = "dict"
        /\ ret[i].v = [status |-> JString("failed"),
                       reason |-> JString("401, message='Unauthorized'")]

\* C1 as stated: every non-2xx status counts as a failure of the call, so a
\* returned invocation that met one returned the failed result.
C1_Original ==
    \A i \in Calls :
        (pc[i] = "returned"
            /\ (CallFailed(i) \/ (remote[i].status # 0 /\ remote[i].status \notin 200..299)))
        => /\ ret[i].t = "dict"
           /\ DOMAIN ret[i].v = {"status", "reason"}
           /\ ret[i].v["status"] = JString("failed")

\* C2: when the body decodes as v, the result is {"result": v} if v is an
\* array and v itself otherwise.
C2_SuccessResult ==
    \A i \in Calls :
        (pc[i] = "returned" /\ remote[i].body # NoValue) =>
            ret[i] = IF remote[i].body.t = "list"
                     THEN [t |-> "dict", v |-> [result |-> remote[i].body]]
                     ELSE remote[i].body

\* C2 witness: a two-element array came back wrapped.
C2_Witness ==
    \E i \in Calls :
        /\ pc[i] = "returned"
        /\ remote[i].body.t = "list"
        /\ Len(remote[i].body.v) = 2
        /\ ret[i].t = "dict"
        /\ ret[i].v = [result |-> remote[i].body]

\* C3 as stated: every returned value is a JSON object, and it has the key
\* "status" exactly when the invocation failed.
C3_ObjectWithStatusIffFailed ==
    \A i \in Calls :
        pc[i] = "returned" =>
            /\ ret[i].t = "dict"
            /\ ("status" \in DOMAIN ret[i].v) <=> CallFailed(i)

\* The location argument after coercion to str.
CoercedLocation(i) == StrOf(args[i].location).val.s

\* out is inp with a space wherever inp has "_" or ",".
SeparatorsSpaced(inp, out) ==
    /\ Len(out) = Len(inp)
    /\ \A k \in 1..Len(inp) :
          out[k] = IF inp[k] \in {"_", ","} THEN " " ELSE inp[k]
    /\ \A k \in 1..Len(out) : out[k] \notin {"_", ","}

\* C4: a location that is non-empty after coercion is passed on with the
\* same length, a space at every "_" and ",", and every other character
\* kept; this holds of params and of every request sent.
C4_LocationSeparators ==
    \A i \in Calls :
        (HasParams(i) /\ args[i].location # PyNone /\ CoercedLocation(i) # <<>>) =>
            /\ "location" \in DOMAIN params[i]
            /\ params[i]["location"].t = "str"
            /\ SeparatorsSpaced(CoercedLocation(i), params[i]["location"].s)
            /\ \A k \in 1..Len(wire[i]) :
                  /\ "location" \in DOMAIN wire[i][k]
                  /\ SeparatorsSpaced(CoercedLocation(i), wire[i][k]["location"].s)

\* C4 witness: "a_," left as "a  ".
C4_Witness ==
    \E i \in Calls :
        /\ args[i].location = PyStr(<<"a", "_", ",">>)
        /\ Len(wire[i]) = 1
        /\ wire[i][1]["location"] = PyStr(<<"a", " ", " ">>)

\* C5: params has q and size always, location exactly when the normalized
\* location is a non-empty string, latitude and longitude exactly when
\* their normalized value is not None, and no other key.
C5_ParamKeys ==
    \A i \in Calls :
        HasParams(i) =>
            /\ {"q", "size"} \subseteq DOMAIN params[i]
            /\ DOMAIN params[i] \subseteq {"q", "size", "location", "latitude", "longitude"}
            /\ ("location" \in DOMAIN params[i])
                  <=> (locals[i].location_val.t = "str" /\ locals[i].location_val.s # <<>>)
            /\ ("latitude" \in DOMAIN params[i]) <=> (locals[i].latitude_val.t # "none")
            /\ ("longitude" \in DOMAIN params[i]) <=> (locals[i].longitude_val.t # "none")

\* C5 witness: size is None and still a key; latitude 0 is a key.
C5_Witness ==
    \E i \in Calls :
        /\ HasParams(i)
        /\ args[i].latitude = PyInt(0)
        /\ DOMAIN params[i] = {"q", "size", "latitude"}
        /\ params[i]["size"] = PyNone
        /\ params[i]["latitude"] = PyFloat(0)

\* C6 as stated: normalization raises nothing for any raw arguments; a field
\* whose conversion fails is None afterwards.
C6_NormalizationNeverRaises ==
    \A i \in Calls :
        pc[i] # "idle" =>
            /\ pc[i] # "raised"
            /\ Convert(args[i].size, "int").exc # "" => locals[i].size_val = PyNone
            /\ Convert(args[i].latitude, "float").exc # "" => locals[i].latitude_val = PyNone
            /\ Convert(args[i].longitude, "float").exc # "" => locals[i].longitude_val = PyNone

NonNumericSize(a) == a.size.t = "str" /\ ~IsDecimal(Unsigned(Strip(a.size.s)))

\* C7 as stated, for invocations whose other arguments are well formed: with
\* a non-numeric size the request is still sent, with size None.
C7_NonNumericSizeStillSent ==
    \A i \in Calls :
        (/\ pc[i] = "returned"
         /\ NonNumericSize(args[i])
         /\ args[i].q.t = "str"
         /\ args[i].latitude = PyNone
         /\ args[i].longitude = PyNone)
        => /\ Len(wire[i]) = 1
           /\ wire[i][1]["size"] = PyNone

\* C8, as amended: every request sent carries a q that is a string, and it
\* is empty only when the raw q is the empty string.
C8_SentQueryIsString ==
    \A i \in Calls :
        \A k \in 1..Len(wire[i]) :
            /\ wire[i][k]["q"].t = "str"
            /\ wire[i][k]["q"].s = <<>> => args[i].q = PyStr(<<>>)

\* C8 witness: a request was sent whose q came from the int 7.
C8_Witness ==
    \E i \in Calls :
        /\ args[i].q = PyInt(7)
        /\ Len(wire[i]) = 1
        /\ wire[i][1]["q"] = PyStr(<<"7">>)

\* C8 as stated: every request sent carries a non-empty string q.
C8_Original ==
    \A i \in Calls :
        \A k \in 1..Len(wire[i]) :
            /\ wire[i][k]["q"].t = "str"
            /\ wire[i][k]["q"].s # <<>>

\* C9: an invocation that has ended, by return, failure or cancellation,
\* holds no open session and no open connection.
C9_EndedHoldsNothing ==
    \A i \in Calls :
        Ended(i) => session[i] # "open" /\ conn[i] # "open"

\* C9 witness: cancelled in flight, after the connection was acquired.
C9_Witness ==
    \E i \in Calls :
        /\ pc[i] = "cancelled"
        /\ Len(wire[i]) = 1
        /\ conn[i] = "closed"
        /\ session[i] = "closed"

\* What an invocation run alone returns for arguments a and remote outcome r.
AloneParams(a) == BuildParams(Normalize(a))
AloneResult(r) == IF r.exc # NoExc THEN FailedResult(r.exc) ELSE WrapResponse(r.body)

\* C10: under any interleaving, the params, the requests sent and the result
\* of each invocation are those of the same invocation run alone.
C10_Independent ==
    \A i \in Calls :
        /\ HasParams(i) => params[i] = AloneParams(args[i])
        /\ \A k \in 1..Len(wire[i]) : wire[i][k] = AloneParams(args[i])
        /\ pc[i] = "returned" => ret[i] = AloneResult(remote[i])

\* C10 witness: two invocations with different arguments wait together.
C10_Witness ==
    \E i, j \in Calls :
        /\ i # j
        /\ pc[i] = "inflight"
        /\ pc[j] = "reading"
        /\ params[i] # params[j]

====
